---- MODULE Spec2Model ----
(***************************************************************************)
(* Model of the segregated free-list allocator of main.c: the size-class   *)
(* resolver get_chunk_index, the MemoryManager object (free_list and       *)
(* preallocated_counts), the seeder preallocate_memory and the operations  *)
(* mm_malloc / mm_free.                                                    *)
(*                                                                         *)
(* Memory is modelled at the level of machine words.  A word holds an      *)
(* integer; a pointer is the integer address of what it points to, NULL    *)
(* is 0.  The MemoryManager object is 2 * CHUNK_CLASSES words: word i is   *)
(* free_list[i], word CHUNK_CLASSES + i is preallocated_counts[i] (both    *)
(* arrays have 8-byte elements, so the struct has no padding).             *)
(***************************************************************************)
EXTENDS Integers, Sequences, FiniteSets, TLC

MIN_CHUNK_SIZE == 4

MAX_CHUNK_SIZE == 65536

CHUNK_CLASSES == 14

\* Width of size_t / unsigned long long on the target.
WordBits == 64

NULL == 0

(***************************************************************************)
(* Bounds of the model.                                                    *)
(***************************************************************************)
\* Blocks the backing allocator (malloc) can hand out before it fails.
MaxBlocks == 3

\* Calls of mm_malloc, mm_free and preallocate_memory in one run.
MaxCalls == 4

\* Largest size given to get_chunk_index in the specification SpecClass.
MaxProbe == 65540

\* Blocks the backing allocator can hand out in the specification SpecSeed.
MaxSeedBlocks == 32

\* SpecSeed seeds with every budget in 0 .. SmallBudget, and with the budgets
\* LargeBudget - 4 .. LargeBudget (one full round of classes, and the wrap).
SmallBudget == 48

LargeBudget == 32770

\* Iterations of the loop of thread_alloc (the program runs 100000).
MaxRounds == 2

\* Options on the command line of main.
MaxArgs == 2

(***************************************************************************)
(* chunk_sizes[]: the initializer has 15 elements, 4 .. 65536.             *)
(***************************************************************************)
RECURSIVE Pow2(_)
Pow2(n) == IF n = 0 THEN 1 ELSE 2 * Pow2(n - 1)

chunk_sizes_len == 15

chunk_sizes(i) == MIN_CHUNK_SIZE * Pow2(i)

(***************************************************************************)
(* Bit operations used by get_chunk_index.                                 *)
(***************************************************************************)
RECURSIVE BitAnd(_, _)
BitAnd(a, b) ==
    IF a = 0 \/ b = 0 THEN 0
    ELSE (a % 2) * (b % 2) + 2 * BitAnd(a \div 2, b \div 2)

\* Number of significant bits of x (0 for x = 0).
RECURSIVE BitLen(_)
BitLen(x) == IF x = 0 THEN 0 ELSE 1 + BitLen(x \div 2)

\* __builtin_clzll(x) for x # 0.
clzll(x) == WordBits - BitLen(x)

\* What __builtin_ctzll(0) can yield: the builtin is undefined for 0.  On
\* x86-64 the build emits tzcnt / rep bsf: tzcnt yields the operand width,
\* bsf leaves the (zeroed) destination register as it was.
CtzOfZero == {0, WordBits}

RECURSIVE CountTrailingZeros(_)
CountTrailingZeros(x) == IF x % 2 = 1 THEN 0 ELSE 1 + CountTrailingZeros(x \div 2)

VARIABLE ctz0          \* what __builtin_ctzll(0) yields on this build

\* __builtin_ctzll(x)
ctzll(x) == IF x = 0 THEN ctz0 ELSE CountTrailingZeros(x)

RoundUpPow2Missing(size) == size

\* The value of `size` after the rounding step of get_chunk_index.
RoundUpPow2(size) ==
    IF BitAnd(size, size - 1) # 0
    THEN Pow2(WordBits - clzll(size))      \* 1ULL << (64 - clz): below 2^64 here
    ELSE size

get_chunk_index(size) ==
    IF size = 0 THEN 0
    ELSE ctzll(RoundUpPow2(size) \div 4)

(***************************************************************************)
(* The intended size class of a request: the least i with                  *)
(* MIN_CHUNK_SIZE * 2^i >= s.  Used to state the claims, not by the code.  *)
(***************************************************************************)
SmallestClass(s) ==
    CHOOSE c \in 0 .. chunk_sizes_len :
        /\ chunk_sizes(c) >= s
        /\ \A d \in 0 .. chunk_sizes_len : chunk_sizes(d) >= s => c <= d

(***************************************************************************)
(* State.                                                                  *)
(***************************************************************************)
VARIABLES
    mem,               \* mem_manager, word by word, and the words outside it
                       \* that an index returned by get_chunk_index reaches
    heap,              \* blocks of the backing allocator: live, size, next
    status,            \* "run", "exit" (exit(1)), "fault" (invalid address)
    pc,                \* "idle", "loop" (inside preallocate_memory), "query"
    total_memory,      \* preallocate_memory: its argument
    allocated_memory,  \* preallocate_memory: its local
    i,                 \* preallocate_memory: its local
    reported,          \* the total printed by preallocate_memory, -1: none
    last,              \* the call made by the last step, and what it returned
    held,              \* <<pointer, size>>: returned by mm_malloc(size) and
                       \* not yet given to mm_free
    proto,             \* every release so far was of a held block, with a
                       \* size of the class it was allocated with
    pushed,            \* per intended class: blocks pushed, not yet popped
    obtained,          \* per block: intended class of the last mm_malloc
                       \* that returned it, -1: none
    seedLog,           \* classes seeded by the last preallocate_memory call
    fromEmpty,         \* that call started on the initial (empty) state
    calls,             \* calls of the three operations made so far
    thr,               \* per thread of test_multithreading: its position in
                       \* thread_alloc and the locals of the call it is in
    prog               \* main: its position, argv, and the operations of
                       \* the allocator it has called so far

vars == <<mem, heap, status, pc, total_memory, allocated_memory, i, reported,
          last, held, proto, pushed, obtained, seedLog, fromEmpty,
          calls, ctz0, thr, prog>>

\* The state of the threads and of main.
extra == <<thr, prog>>

\* Word offsets inside mem_manager.
FreeListWord(index) == index

CountWord(index) == CHUNK_CLASSES + index

ManagerWords == 0 .. (2 * CHUNK_CLASSES - 1)

\* Words outside mem_manager that free_list[index] can name.
WildWords == {w \in CtzOfZero : w \notin ManagerWords}

\* What a word outside the program's objects can hold when first read, and
\* what a load through a pointer into the middle of a block can yield.
GarbageWords == {NULL, NULL + 1}

\* What chunk_sizes[index] can yield for an index outside the array.
GarbageSizes == {0, MIN_CHUNK_SIZE}

\* chunk_sizes[index] as the code reads it.
ChunkSizeAt(index) ==
    IF index < chunk_sizes_len THEN {chunk_sizes(index)} ELSE GarbageSizes

(***************************************************************************)
(* The backing allocator.  Block b lies at address Addr(b); blocks do not  *)
(* overlap.  malloc returns NULL or the next block not yet handed out;     *)
(* the program never frees a block to the backing allocator.              *)
(***************************************************************************)
Blocks == DOMAIN heap

Addr(b) == b * (2 * MAX_CHUNK_SIZE)

IsBase(w) == \E b \in Blocks : heap[b].live /\ Addr(b) = w

BlockOf(w) == CHOOSE b \in Blocks : Addr(b) = w

InHeap(w) == w > Addr(1)

\* The block a pointer into the heap points into.
Enclosing(w) == CHOOSE b \in Blocks : Addr(b) <= w /\ w < Addr(b + 1)

Fresh == {b \in Blocks : ~heap[b].live}

NextFresh == CHOOSE b \in Fresh : \A c \in Fresh : b <= c

\* malloc(n): the pointers the call can return.
malloc == {NULL} \cup (IF Fresh = {} THEN {} ELSE {Addr(NextFresh)})

HeapAfterMalloc(p, n) ==
    IF p = NULL THEN heap
    ELSE [heap EXCEPT ![BlockOf(p)] = [live |-> TRUE, size |-> n, next |-> @.next]]

Fault == 0 - 1

\* block->next read through pointer w: the words the load can yield, or Fault.
LoadNext(w) ==
    IF IsBase(w) THEN {heap[BlockOf(w)].next}
    ELSE IF InHeap(w) THEN GarbageWords
    ELSE {Fault}

\* block->next = v through pointer p: the heaps the store can leave.
StoreNext(p, v) ==
    IF IsBase(p) THEN {[heap EXCEPT ![BlockOf(p)].next = v]}
    ELSE {[heap EXCEPT ![Enclosing(p)].next = g] : g \in GarbageWords}

(***************************************************************************)
(* Initial state: MemoryManager mem_manager = { {NULL}, {0} }.             *)
(***************************************************************************)
\* main is not part of the run.
NoProgram == [pc |-> "none", argv |-> <<>>, k |-> 0, log |-> <<>>, oom |-> FALSE]

NoCall ==
    [op |-> "none", size |-> 0, ptr |-> NULL, ret |-> NULL, index |-> 0 - 1,
     oom |-> FALSE, expect |-> NULL, prevClass |-> 0 - 1]

EmptyManager(m) == \A w \in ManagerWords : m[w] = 0

InitState(capacity, pc0, call0, thr0, prog0) ==
    /\ \E g \in GarbageWords :
         mem = [w \in ManagerWords \cup WildWords |->
                   IF w \in ManagerWords THEN 0 ELSE g]
    /\ heap = [b \in 1 .. capacity |-> [live |-> FALSE, size |-> 0, next |-> NULL]]
    /\ status = "run"
    /\ pc = pc0
    /\ total_memory = 0
    /\ allocated_memory = 0
    /\ i = 0
    /\ reported = 0 - 1
    /\ last = call0
    /\ held = {}
    /\ proto = TRUE
    /\ pushed = [c \in 0 .. chunk_sizes_len |-> <<>>]
    /\ obtained = [b \in 1 .. capacity |-> 0 - 1]
    /\ seedLog = <<>>
    /\ fromEmpty = FALSE
    /\ calls = 0
    /\ ctz0 \in CtzOfZero
    /\ thr = thr0
    /\ prog = prog0

\* A run without threads and without main.
InitWith(capacity, pc0, call0) ==
    InitState(capacity, pc0, call0, <<>>, NoProgram)

Init == InitWith(MaxBlocks, "idle", NoCall)

Push(c, p) == [pushed EXCEPT ![c] = Append(@, p)]

Top(c) == IF pushed[c] = <<>> THEN NULL ELSE pushed[c][Len(pushed[c])]

Pop(c) ==
    IF pushed[c] = <<>> THEN pushed
    ELSE [pushed EXCEPT ![c] = SubSeq(@, 1, Len(@) - 1)]

IsBlockAddr(w) == \E b \in Blocks : Addr(b) = w

PrevClass(w) == IF IsBlockAddr(w) THEN obtained[BlockOf(w)] ELSE 0 - 1

(***************************************************************************)
(* void *mm_malloc(size_t size)                                            *)
(***************************************************************************)
InvalidSizeOffByOne(size) == size = 0 \/ size > MAX_CHUNK_SIZE + 1

InvalidSize(size) == size = 0 \/ size > MAX_CHUNK_SIZE

\* What mm_malloc(size) leaves, given the returned pointer (NULL: none).
Returned(size, index, ret, oom) ==
    /\ last' = [op |-> "mm_malloc", size |-> size, ptr |-> NULL, ret |-> ret,
                index |-> index, oom |-> oom,
                expect |-> Top(SmallestClass(size)),
                prevClass |-> PrevClass(ret)]
    /\ held' = IF ret = NULL THEN held ELSE held \cup {<<ret, size>>}
    /\ pushed' = Pop(SmallestClass(size))
    /\ obtained' = IF IsBlockAddr(ret)
                   THEN [obtained EXCEPT ![BlockOf(ret)] = SmallestClass(size)]
                   ELSE obtained

mm_malloc(size) ==
    /\ status = "run"
    /\ pc = "idle"
    /\ calls < MaxCalls
    /\ calls' = calls + 1
    /\ UNCHANGED ctz0
    /\ UNCHANGED extra
    /\ UNCHANGED <<pc, total_memory, allocated_memory, i, reported, proto,
                   seedLog, fromEmpty>>
    /\ IF InvalidSize(size)
       THEN /\ last' = [NoCall EXCEPT !.op = "mm_malloc", !.size = size]
            /\ UNCHANGED <<mem, heap, status, held, pushed, obtained>>
       ELSE LET index == get_chunk_index(size)
                block == mem[FreeListWord(index)] IN
              IF block # NULL
              THEN \* take from free list
                   \E nx \in LoadNext(block) :
                     IF nx = Fault
                     THEN /\ status' = "fault"
                          /\ last' = [NoCall EXCEPT !.op = "mm_malloc", !.size = size,
                                                    !.index = index,
                                                    !.expect = Top(SmallestClass(size))]
                          /\ UNCHANGED <<mem, heap, held, pushed, obtained>>
                     ELSE /\ mem' = [mem EXCEPT ![FreeListWord(index)] = nx]
                          /\ Returned(size, index, block, FALSE)
                          /\ UNCHANGED <<heap, status>>
              ELSE \* fallback: malloc(chunk_sizes[index])
                   \E n \in ChunkSizeAt(index) : \E p \in malloc :
                     /\ heap' = HeapAfterMalloc(p, n)
                     /\ Returned(size, index, p, p = NULL)
                     /\ UNCHANGED <<mem, status>>

(***************************************************************************)
(* void mm_free(void *ptr, size_t size)                                    *)
(***************************************************************************)
\* The pointers a caller can pass: NULL, any block of the backing allocator
\* (held, already released, or seeded and never allocated), anything it holds.
PointerArgs ==
    {NULL} \cup {Addr(b) : b \in {c \in Blocks : heap[c].live}}
           \cup {h[1] : h \in held}

\* The release follows the protocol: the block is held, and was allocated
\* with a size of the same class.
Matching(ptr, size) ==
    {h \in held : h[1] = ptr /\ SmallestClass(h[2]) = SmallestClass(size)}

mm_free(ptr, size) ==
    /\ status = "run"
    /\ pc = "idle"
    /\ calls < MaxCalls
    /\ calls' = calls + 1
    /\ UNCHANGED ctz0
    /\ UNCHANGED extra
    /\ UNCHANGED <<status, pc, total_memory, allocated_memory, i, reported,
                   obtained, seedLog, fromEmpty>>
    /\ IF ptr = NULL \/ InvalidSize(size)
       THEN /\ last' = [NoCall EXCEPT !.op = "mm_free", !.size = size, !.ptr = ptr]
            /\ UNCHANGED <<mem, heap, held, proto, pushed>>
       ELSE LET index == get_chunk_index(size) IN
              /\ heap' \in StoreNext(ptr, mem[FreeListWord(index)])
              /\ mem' = [mem EXCEPT ![FreeListWord(index)] = ptr]
              /\ last' = [NoCall EXCEPT !.op = "mm_free", !.size = size, !.ptr = ptr,
                                        !.index = index]
              /\ proto' = (proto /\ Matching(ptr, size) # {})
              /\ held' = {h \in held : h[1] # ptr}
              /\ pushed' = Push(SmallestClass(size), ptr)

(***************************************************************************)
(* void preallocate_memory(size_t total_memory)                            *)
(***************************************************************************)
preallocate_memory(B) ==
    /\ status = "run"
    /\ pc = "idle"
    /\ calls < MaxCalls
    /\ calls' = calls + 1
    /\ UNCHANGED ctz0
    /\ UNCHANGED extra
    /\ pc' = "loop"
    /\ total_memory' = B
    /\ allocated_memory' = 0
    /\ i' = 0
    /\ seedLog' = <<>>
    /\ fromEmpty' = (EmptyManager(mem) /\ \A b \in Blocks : ~heap[b].live)
    /\ last' = [NoCall EXCEPT !.op = "preallocate_memory", !.size = B]
    /\ reported' = 0 - 1
    /\ UNCHANGED <<mem, heap, status, held, proto, pushed, obtained>>

LoopConditionStrict == allocated_memory + chunk_sizes(i) < total_memory * 2

\* The while condition.  (size_t arithmetic: the budgets of the model keep
\* total_memory * 2 far below 2^64.)
LoopCondition == allocated_memory + chunk_sizes(i) <= total_memory * 2

NextClassWrapsAtFour(c) == (c + 1) % 4

NextClassStays(c) == c

\* i = (i + 1) % CHUNK_CLASSES
NextClass(c) == (c + 1) % CHUNK_CLASSES

SeedLinkDropsList(head) == NULL

\* block->next = mem_manager.free_list[i]: the value stored in the new block.
SeedLink(head) == head

ChargeNothing(a, c) == a

\* allocated_memory += chunk_sizes[i]
Charge(a, c) == a + chunk_sizes(c)

\* One iteration of the while loop.
SeedBlock ==
    /\ status = "run"
    /\ pc = "loop"
    /\ LoopCondition
    /\ UNCHANGED ctz0
    /\ UNCHANGED extra
    /\ \E block \in malloc :
         IF block = NULL
         THEN \* printf("Failed to allocate memory\n"); exit(1);
              /\ status' = "exit"
              /\ last' = [last EXCEPT !.oom = TRUE]
              /\ UNCHANGED <<mem, heap, pc, total_memory, allocated_memory, i,
                             reported, held, proto, pushed, obtained, seedLog,
                             fromEmpty, calls>>
         ELSE /\ heap' = [HeapAfterMalloc(block, chunk_sizes(i))
                             EXCEPT ![BlockOf(block)].next =
                                        SeedLink(mem[FreeListWord(i)])]
              /\ mem' = [mem EXCEPT ![FreeListWord(i)] = block,
                                    ![CountWord(i)] = @ + 1]
              /\ allocated_memory' = Charge(allocated_memory, i)
              /\ i' = NextClass(i)
              /\ seedLog' = Append(seedLog, i)
              /\ pushed' = Push(i, block)
              /\ last' = [last EXCEPT !.index = i, !.ret = block]
              /\ UNCHANGED <<status, pc, total_memory, reported, held, proto,
                             obtained, fromEmpty, calls>>

\* The loop's exit and the printf that reports allocated_memory.
SeedReturn ==
    /\ status = "run"
    /\ pc = "loop"
    /\ ~LoopCondition
    /\ pc' = "idle"
    /\ reported' = allocated_memory
    /\ UNCHANGED <<mem, heap, status, total_memory, allocated_memory, i, last,
                   held, proto, pushed, obtained, seedLog, fromEmpty, calls,
                   ctz0, extra>>

(***************************************************************************)
(* Spec: a single-threaded caller that seeds, allocates and releases, in   *)
(* any order.                                                              *)
(***************************************************************************)
SizeArgs == {0, 1, 4, 5, MAX_CHUNK_SIZE, MAX_CHUNK_SIZE + 1}

BudgetArgs == {2, 6}

Allocate == \E size \in SizeArgs : mm_malloc(size)

Release == \E ptr \in PointerArgs : \E size \in SizeArgs : mm_free(ptr, size)

Seed == \E B \in BudgetArgs : preallocate_memory(B)

Next == Allocate \/ Release \/ Seed \/ SeedBlock \/ SeedReturn

Spec == Init /\ [][Next]_vars

(***************************************************************************)
(* SpecClass: get_chunk_index alone, called once with a size drawn from    *)
(* 0 .. MaxProbe.                                                          *)
(***************************************************************************)
InitClass ==
    \E size \in 0 .. MaxProbe :
        InitWith(MaxBlocks, "query", [NoCall EXCEPT !.size = size])

Resolve ==
    /\ pc = "query"
    /\ last.op = "none"
    /\ last' = [last EXCEPT !.op = "get_chunk_index",
                            !.index = get_chunk_index(last.size)]
    /\ UNCHANGED <<mem, heap, status, pc, total_memory, allocated_memory, i,
                   reported, held, proto, pushed, obtained, seedLog, fromEmpty,
                   calls, ctz0, extra>>

SpecClass == InitClass /\ [][Resolve]_vars

(***************************************************************************)
(* SpecSeed: preallocate_memory called once, on the initial state, with a  *)
(* budget drawn from SeedBudgets.                                          *)
(***************************************************************************)
SeedBudgets ==
    (0 .. SmallBudget)
        \cup {chunk_sizes(c) : c \in 0 .. CHUNK_CLASSES - 1}
        \cup ((LargeBudget - 4) .. LargeBudget)

InitSeed == InitWith(MaxSeedBlocks, "idle", NoCall)

SeedOnce == calls = 0 /\ \E B \in SeedBudgets : preallocate_memory(B)

NextSeed == SeedOnce \/ SeedBlock \/ SeedReturn

SpecSeed == InitSeed /\ [][NextSeed]_vars

\* The same program with its control flow running on: the loop of
\* preallocate_memory is straight-line code of one thread, so an iteration
\* that can run does run, and so does the loop's exit.
SpecSeedLive == SpecSeed /\ WF_vars(SeedBlock) /\ WF_vars(SeedReturn)

(***************************************************************************)
(* test_multithreading: the threads of thread_alloc, each running          *)
(* ptr = mm_malloc(128); mm_free(ptr, 128) in a loop, with no lock.  A     *)
(* step of a thread is one access to the shared words of mem_manager.      *)
(***************************************************************************)
\* Two of the threads that test_multithreading starts: the races of
\* mm_malloc and mm_free are races of two calls.
Threads == {1, 2}

ThreadSize == 128

\* The word of the free list all threads work on.
ThreadHead == FreeListWord(get_chunk_index(ThreadSize))

Started ==
    [t \in Threads |->
        [pc |-> "call", round |-> 0, block |-> NULL, nx |-> NULL, seen |-> NULL,
         ptr |-> NULL, raced |-> FALSE, stale |-> FALSE]]

\* The other threads that are between the read of the head (line 76) and
\* the write of the head (line 77) with the block p.
Popping(t, p) ==
    {u \in Threads \ {t} : thr[u].pc \in {"next", "store"} /\ thr[u].block = p}

ThreadFrame ==
    UNCHANGED <<pc, total_memory, allocated_memory, i, reported, last, held,
                proto, pushed, obtained, seedLog, fromEmpty, calls, ctz0, prog>>

\* mm_malloc(128) up to the test of the head: with an empty list the call
\* returns malloc(chunk_sizes[index]).
ThreadCheck(t) ==
    /\ status = "run"
    /\ thr[t].pc = "call"
    /\ ThreadFrame
    /\ IF mem[ThreadHead] # NULL
       THEN /\ thr' = [thr EXCEPT ![t].pc = "load", ![t].raced = FALSE,
                                  ![t].stale = FALSE]
            /\ UNCHANGED <<mem, heap, status>>
       ELSE \E p \in malloc :
              /\ heap' = HeapAfterMalloc(p, chunk_sizes(get_chunk_index(ThreadSize)))
              /\ thr' = [thr EXCEPT ![t].pc = "link", ![t].ptr = p,
                                    ![t].block = NULL, ![t].raced = FALSE,
                                    ![t].stale = FALSE]
              /\ UNCHANGED <<mem, status>>

\* FreeBlock *block = mem_manager.free_list[index];
ThreadLoad(t) ==
    /\ status = "run"
    /\ thr[t].pc = "load"
    /\ ThreadFrame
    /\ LET p == mem[ThreadHead]
           others == IF p = NULL THEN {} ELSE Popping(t, p) IN
         thr' = [u \in Threads |->
                   IF u = t THEN [thr[t] EXCEPT !.pc = "next", !.block = p,
                                                !.raced = (others # {})]
                   ELSE IF u \in others THEN [thr[u] EXCEPT !.raced = TRUE]
                   ELSE thr[u]]
    /\ UNCHANGED <<mem, heap, status>>

\* The read of block->next.
ThreadNext(t) ==
    /\ status = "run"
    /\ thr[t].pc = "next"
    /\ ThreadFrame
    /\ \E nx \in LoadNext(thr[t].block) :
         IF nx = Fault
         THEN /\ status' = "fault"
              /\ UNCHANGED <<mem, heap, thr>>
         ELSE /\ thr' = [thr EXCEPT ![t].pc = "store", ![t].nx = nx]
              /\ UNCHANGED <<mem, heap, status>>

PopResultChecked(block, head) == IF head = block THEN block ELSE NULL

\* return (void *)block; whatever the head is by now.
PopResult(block, head) == block

\* mem_manager.free_list[index] = (the value read from block->next), and the
\* return of mm_malloc.
ThreadStore(t) ==
    /\ status = "run"
    /\ thr[t].pc = "store"
    /\ ThreadFrame
    /\ mem' = [mem EXCEPT ![ThreadHead] = thr[t].nx]
    /\ thr' = [thr EXCEPT ![t].pc = "link",
                          ![t].ptr = PopResult(thr[t].block, mem[ThreadHead])]
    /\ UNCHANGED <<heap, status>>

\* The thread's next position after mm_free returned.
AfterRound(t) == IF thr[t].round + 1 < MaxRounds THEN "call" ELSE "done"

\* mm_free(ptr, 128) up to block->next = mem_manager.free_list[index].
ThreadLink(t) ==
    /\ status = "run"
    /\ thr[t].pc = "link"
    /\ ThreadFrame
    /\ IF thr[t].ptr = NULL
       THEN /\ thr' = [thr EXCEPT ![t].pc = AfterRound(t), ![t].round = @ + 1]
            /\ UNCHANGED <<mem, heap, status>>
       ELSE /\ heap' \in StoreNext(thr[t].ptr, mem[ThreadHead])
            /\ thr' = [thr EXCEPT ![t].pc = "publish", ![t].seen = mem[ThreadHead]]
            /\ UNCHANGED <<mem, status>>

HeapRelinked(h, ptr, head) == [h EXCEPT ![BlockOf(ptr)].next = head]

\* The heap after line 92: block->next keeps what line 91 stored in it.
HeapAtPublish(h, ptr, head) == h

\* mem_manager.free_list[index] = block, and the return of mm_free.
ThreadPublish(t) ==
    /\ status = "run"
    /\ thr[t].pc = "publish"
    /\ ThreadFrame
    /\ mem' = [mem EXCEPT ![ThreadHead] = thr[t].ptr]
    /\ heap' = HeapAtPublish(heap, thr[t].ptr, mem[ThreadHead])
    /\ thr' = [thr EXCEPT ![t].pc = AfterRound(t), ![t].round = @ + 1,
                          ![t].ptr = NULL,
                          ![t].stale = (mem[ThreadHead] # thr[t].seen)]
    /\ UNCHANGED status

Check == \E t \in Threads : ThreadCheck(t)

Load == \E t \in Threads : ThreadLoad(t)

ReadNext == \E t \in Threads : ThreadNext(t)

Store == \E t \in Threads : ThreadStore(t)

Link == \E t \in Threads : ThreadLink(t)

Publish == \E t \in Threads : ThreadPublish(t)

InitMT == InitState(MaxBlocks, "idle", NoCall, Started, NoProgram)

NextMT == Check \/ Load \/ ReadNext \/ Store \/ Link \/ Publish

SpecMT == InitMT /\ [][NextMT]_vars

(***************************************************************************)
(* main: the options of the command line in order, then the benchmark.     *)
(* SpecMain follows the control flow of main and of the functions it       *)
(* calls and records in prog.log which operation of the allocator is       *)
(* called, in call order; the memory of the allocator is not stepped here. *)
(***************************************************************************)
Options == {"-c", "-f", "-p", "-m", "-t", "-b"}

\* A word on the command line that is no option.
Unknown == "-x"

CommandLines ==
    UNION {[1 .. n -> Options \cup {Unknown}] : n \in 0 .. MaxArgs}

InitMain ==
    \E argv \in CommandLines :
        InitState(MaxBlocks, "idle", NoCall, <<>>,
                  [pc |-> "start", argv |-> argv, k |-> 0, log |-> <<>>,
                   oom |-> FALSE])

MainFrame ==
    UNCHANGED <<mem, heap, status, pc, total_memory, allocated_memory, i,
                reported, last, held, proto, pushed, obtained, seedLog,
                fromEmpty, calls, ctz0, thr>>

\* if (argc < 2) { usage; return 1; }
MainStart ==
    /\ prog.pc = "start"
    /\ MainFrame
    /\ prog' = IF Len(prog.argv) = 0
               THEN [prog EXCEPT !.pc = "return1"]
               ELSE [prog EXCEPT !.pc = "args", !.k = 1]

\* One iteration of the loop over argv.  -c, -f and -p use the result of
\* malloc unchecked; -t runs test_multithreading, whose threads call
\* mm_malloc(128) and mm_free(ptr, 128).
MainOption ==
    /\ prog.pc = "args"
    /\ prog.k <= Len(prog.argv)
    /\ MainFrame
    /\ LET a == prog.argv[prog.k] IN
         \/ /\ a \in {"-c", "-f", "-p"}
            /\ \/ prog' = [prog EXCEPT !.k = @ + 1]
               \/ prog' = [prog EXCEPT !.pc = "crash", !.oom = TRUE]
         \/ /\ a \in {"-m", "-b"}
            /\ prog' = [prog EXCEPT !.k = @ + 1]
         \/ /\ a = "-t"
            /\ prog' = [prog EXCEPT !.k = @ + 1,
                                    !.log = @ \o <<"mm_malloc", "mm_free">>]
         \/ /\ a \notin Options
            /\ prog' = [prog EXCEPT !.pc = "return1"]

\* benchmark(TOTAL_MEMORY) up to the return of preallocate_memory; the
\* function returns early when its own malloc calls fail, and
\* preallocate_memory exits the process when malloc fails.
MainSeed ==
    /\ prog.pc = "args"
    /\ prog.k > Len(prog.argv)
    /\ MainFrame
    /\ \/ prog' = [prog EXCEPT !.pc = "return0", !.oom = TRUE]
       \/ prog' = [prog EXCEPT !.pc = "exit1", !.oom = TRUE,
                               !.log = Append(@, "preallocate_memory")]
       \/ prog' = [prog EXCEPT !.pc = "seeded",
                               !.log = Append(@, "preallocate_memory")]

\* The loop ptrs[i] = mm_malloc(sizes[i]).
MainAllocate ==
    /\ prog.pc = "seeded"
    /\ MainFrame
    /\ prog' = [prog EXCEPT !.pc = "allocated", !.log = Append(@, "mm_malloc")]

\* The loop mm_free(ptrs[i], sizes[i]), and the return of benchmark and main.
MainRelease ==
    /\ prog.pc = "allocated"
    /\ MainFrame
    /\ prog' = [prog EXCEPT !.pc = "return0", !.log = Append(@, "mm_free")]

NextMain == MainStart \/ MainOption \/ MainSeed \/ MainAllocate \/ MainRelease

SpecMain == InitMain /\ [][NextMain]_vars

(***************************************************************************)
(* Properties.                                                             *)
(***************************************************************************)
Counts(m) == [c \in 0 .. CHUNK_CLASSES - 1 |-> m[CountWord(c)]]

\* The pointer is a live block of at least n bytes.
Usable(p, n) == IsBase(p) /\ heap[BlockOf(p)].size >= n

\* C1: mm_malloc(0) and mm_malloc(65537) return NULL, and mm_malloc(65536)
\* returns a usable block of at least 65536 bytes (unless the backing
\* allocator itself fails), before and after seeding, in every run whose
\* releases follow the protocol.
RejectionBoundary ==
    last.op = "mm_malloc" =>
        /\ last.size \in {0, MAX_CHUNK_SIZE + 1} => last.ret = NULL
        /\ (last.size = MAX_CHUNK_SIZE /\ ~last.oom /\ proto) =>
              /\ status = "run"
              /\ Usable(last.ret, MAX_CHUNK_SIZE)

\* C2: mm_malloc with size 0 or size > 65536 returns NULL, mm_free with a
\* NULL pointer or such a size returns, and neither changes a free list, a
\* counter, a block or any other word.
InvalidRequestNoEffect ==
    [][(/\ last'.op \in {"mm_malloc", "mm_free"}
        /\ \/ last'.size = 0
           \/ last'.size > MAX_CHUNK_SIZE
           \/ (last'.op = "mm_free" /\ last'.ptr = NULL))
       => (/\ mem' = mem
           /\ heap' = heap
           /\ status' = status
           /\ last'.ret = NULL)]_vars

\* C2 witness: a release with size 65537 of a block the caller holds, on an
\* allocator with a non-empty free list, has been made.
InvalidRequestWitness ==
    /\ last.op = "mm_free"
    /\ last.size = MAX_CHUNK_SIZE + 1
    /\ \E h \in held : h[1] = last.ptr
    /\ \E c \in 0 .. CHUNK_CLASSES - 1 : mem[FreeListWord(c)] # NULL

\* C3: for a size in (0, 65536] the class of get_chunk_index(size) has a
\* size >= the request and is the smallest such class; sizes 1, 2, 3 map to
\* class 0 and a power of two p >= 4 to log2(p) - log2(4).
ClassSufficiency ==
    (last.op = "get_chunk_index" /\ last.size \in 1 .. MAX_CHUNK_SIZE) =>
        /\ last.index \in 0 .. chunk_sizes_len - 1
        /\ chunk_sizes(last.index) >= last.size
        /\ \A d \in 0 .. chunk_sizes_len - 1 :
              chunk_sizes(d) >= last.size => last.index <= d
        /\ last.size \in {1, 2, 3} => last.index = 0
        /\ \A k \in 0 .. chunk_sizes_len - 1 :
              last.size = chunk_sizes(k) => last.index = k

\* C4: for a size in (0, 65536] get_chunk_index(size) is an index of
\* free_list, that is in [0, CHUNK_CLASSES).  Stated for the sizes from 3 on:
\* for 1 and 2 the index is that of __builtin_ctzll(0) (see C3).
IndexInFreeList ==
    (last.op = "get_chunk_index" /\ last.size \in 3 .. MAX_CHUNK_SIZE) =>
        last.index \in 0 .. CHUNK_CLASSES - 1

\* C5: a call of mm_malloc or mm_free leaves every preallocated counter as
\* it was (stated for the calls of runs whose releases follow the protocol).
CountersUntouched ==
    [][(last'.op \in {"mm_malloc", "mm_free"} /\ proto')
          => Counts(mem') = Counts(mem)]_vars

\* C6: in a run whose releases follow the protocol, mm_malloc for a class
\* onto which blocks were pushed (seeded or released) returns the block
\* pushed last and not yet re-allocated; so after b = mm_malloc(s) and
\* mm_free(b, s) the next mm_malloc of that class returns b.
LifoReuse ==
    (last.op = "mm_malloc" /\ proto /\ last.expect # NULL /\ ~last.oom) =>
        (status = "run" /\ last.ret = last.expect)

SeededFromEmpty(B) ==
    /\ status = "run"
    /\ pc = "idle"
    /\ last.op = "preallocate_memory"
    /\ last.size = B
    /\ fromEmpty

RECURSIVE SeqBytes(_)
SeqBytes(log) ==
    IF log = <<>> THEN 0 ELSE chunk_sizes(Head(log)) + SeqBytes(Tail(log))

RECURSIVE CountBytes(_, _)
CountBytes(m, c) ==
    IF c = 0 - 1 THEN 0 ELSE m[CountWord(c)] * chunk_sizes(c) + CountBytes(m, c - 1)

Occurrences(log, c) == Cardinality({k \in 1 .. Len(log) : log[k] = c})

\* C8 (as claimed): preallocate_memory(40) on an empty allocator seeds the
\* classes 0, 1, 2, 3 and then wraps to class 0 for a second 4-byte block.
SeedFortyWraps ==
    SeededFromEmpty(40) =>
        (Len(seedLog) >= 5 /\ SubSeq(seedLog, 1, 5) = <<0, 1, 2, 3, 0>>)

\* C8 (amended): preallocate_memory(40) on an empty allocator seeds exactly
\* one block of each of the classes 0, 1, 2, 3, in that order, and stops
\* there with 60 bytes: the 64-byte block of class 4 would exceed 80.
SeedFortyStops ==
    SeededFromEmpty(40) =>
        /\ seedLog = <<0, 1, 2, 3>>
        /\ reported = 60
        /\ \A c \in 0 .. CHUNK_CLASSES - 1 :
              mem[CountWord(c)] = IF c <= 3 THEN 1 ELSE 0

\* C8 witness: preallocate_memory(40) has returned on an allocator that was
\* empty, having seeded blocks.
SeedFortyWitness == SeededFromEmpty(40) /\ reported > 0 /\ seedLog # <<>>

\* C9: preallocate_memory(B) on an empty allocator seeds at most 2*B bytes,
\* stops exactly when the block of the next class in the cycle would push
\* the total above 2*B, and reports a total equal to the sum over the
\* classes of preallocated_counts[c] * chunk_sizes[c].
SeedBudget ==
    \A B \in SeedBudgets :
        SeededFromEmpty(B) =>
            /\ reported = SeqBytes(seedLog)
            /\ reported <= 2 * B
            /\ reported + chunk_sizes(Len(seedLog) % CHUNK_CLASSES) > 2 * B
            /\ reported = CountBytes(mem, CHUNK_CLASSES - 1)

\* C9 witness: a seeding that stopped strictly below its 2*B budget, after
\* seeding blocks, has returned.
SeedBudgetWitness ==
    \E B \in SeedBudgets :
        SeededFromEmpty(B) /\ reported > 0 /\ reported < 2 * B

\* C10: after preallocate_memory(B) on an empty allocator the classes were
\* seeded in the order 0, 1, ..., CHUNK_CLASSES - 1, 0, 1, ..., one block
\* per step; so for classes c < d the counts satisfy
\* count[d] <= count[c] <= count[d] + 1, and every class the cycle reached
\* has a count > 0.
SeedRoundRobin ==
    \A B \in SeedBudgets :
        SeededFromEmpty(B) =>
            /\ \A k \in 1 .. Len(seedLog) : seedLog[k] = (k - 1) % CHUNK_CLASSES
            /\ \A c \in 0 .. CHUNK_CLASSES - 1 :
                  /\ mem[CountWord(c)] = Occurrences(seedLog, c)
                  /\ Occurrences(seedLog, c) > 0 => mem[CountWord(c)] > 0
            /\ \A c, d \in 0 .. CHUNK_CLASSES - 1 :
                  c < d => /\ mem[CountWord(d)] <= mem[CountWord(c)]
                           /\ mem[CountWord(c)] <= mem[CountWord(d)] + 1

\* C10 witness: a seeding that went through all classes and wrapped to class
\* 0 again has returned.
SeedRoundRobinWitness ==
    \E B \in SeedBudgets :
        /\ SeededFromEmpty(B)
        /\ Len(seedLog) > CHUNK_CLASSES
        /\ mem[CountWord(0)] = 2
        /\ mem[CountWord(CHUNK_CLASSES - 1)] = 1

\* C11: get_chunk_index is monotone on (0, 65536]: s1 <= s2 implies
\* get_chunk_index(s1) <= get_chunk_index(s2).  Stated for the neighbours
\* s, s + 1, of which the claim is the transitive closure.
ClassMonotone ==
    (last.op = "get_chunk_index" /\ last.size \in 1 .. MAX_CHUNK_SIZE - 1) =>
        last.index <= get_chunk_index(last.size + 1)

\* The blocks of the list that starts at word w of heap h, in list order;
\* the walk stops at NULL, at a word that is no block, or after fuel blocks.
RECURSIVE ListFrom(_, _, _)
ListFrom(h, w, fuel) ==
    IF fuel = 0 \/ ~(\E b \in DOMAIN h : h[b].live /\ Addr(b) = w)
    THEN <<>>
    ELSE <<w>> \o ListFrom(h, h[BlockOf(w)].next, fuel - 1)

\* The word at which the walk of ListFrom stops.
RECURSIVE ListEnd(_, _, _)
ListEnd(h, w, fuel) ==
    IF fuel = 0 \/ ~(\E b \in DOMAIN h : h[b].live /\ Addr(b) = w)
    THEN w
    ELSE ListEnd(h, h[BlockOf(w)].next, fuel - 1)

Range(seq) == {seq[k] : k \in 1 .. Len(seq)}

\* C19: the loop of preallocate_memory(B) exits after finitely many
\* iterations unless malloc fails: every iteration adds at least
\* MIN_CHUNK_SIZE to allocated_memory, which stays <= 2 * B, and a call that
\* is in the loop leaves it (returns, or exits the process on a failed malloc).
SeedTerminates ==
    /\ [](pc = "loop" =>
            /\ Len(seedLog) * MIN_CHUNK_SIZE <= allocated_memory
            /\ allocated_memory <= 2 * total_memory)
    /\ (pc = "loop") ~> (pc = "idle" \/ status = "exit")

\* C19 witness: a seeding of more iterations than there are classes returned.
SeedTerminatesWitness ==
    /\ status = "run"
    /\ pc = "idle"
    /\ last.op = "preallocate_memory"
    /\ Len(seedLog) > CHUNK_CLASSES
    /\ reported = allocated_memory

\* C20: after preallocate_memory(B) on an empty allocator, for every class c
\* the list at free_list[c] ends in NULL, holds preallocated_counts[c] blocks,
\* and each of its blocks was allocated with chunk_sizes[c] bytes.
SeedListsMatchCounts ==
    \A B \in SeedBudgets :
        SeededFromEmpty(B) =>
            \A c \in 0 .. CHUNK_CLASSES - 1 :
                LET list == ListFrom(heap, mem[c], MaxSeedBlocks + 1) IN
                  /\ ListEnd(heap, mem[c], MaxSeedBlocks + 1) = NULL
                  /\ Len(list) = mem[CHUNK_CLASSES + c]
                  /\ Cardinality(Range(list)) = Len(list)
                  /\ \A p \in Range(list) : heap[BlockOf(p)].size = chunk_sizes(c)

\* C20 witness: a seeding from empty returned with two blocks on the list of
\* class 0 and one on the list of class 1.
SeedListsMatchCountsWitness ==
    \E B \in SeedBudgets :
        /\ SeededFromEmpty(B)
        /\ Len(ListFrom(heap, mem[0], MaxSeedBlocks + 1)) = 2
        /\ Len(ListFrom(heap, mem[1], MaxSeedBlocks + 1)) = 1
        /\ mem[CHUNK_CLASSES] = 2

\* The free list of class c in memory m and heap h, as a sequence of blocks.
ClassList(m, h, c) == ListFrom(h, m[FreeListWord(c)], MaxBlocks + 1)

\* How often block address p occurs on the lists free_list[0 .. CHUNK_CLASSES - 1].
OnLists(m, h, p) ==
    Cardinality({<<c, k>> \in (0 .. CHUNK_CLASSES - 1) \X (1 .. MaxBlocks + 1) :
                    k <= Len(ClassList(m, h, c)) /\ ClassList(m, h, c)[k] = p})

HeldBy(hd, p) == IF \E x \in hd : x[1] = p THEN 1 ELSE 0

\* C14: in a single-threaded run whose releases follow the protocol, every
\* block that was handed out or seeded is either held by the caller or on
\* exactly one free list, once; every free list ends in NULL; and mm_malloc
\* never returns a block the caller holds already.
BlockExclusive ==
    [][(proto' /\ status' = "run") =>
          /\ \A c \in 0 .. CHUNK_CLASSES - 1 :
                ListEnd(heap', mem'[FreeListWord(c)], MaxBlocks + 1) = NULL
          /\ \A b \in DOMAIN heap' :
                heap'[b].live =>
                    OnLists(mem', heap', Addr(b)) + HeldBy(held', Addr(b)) = 1
          /\ (last'.op = "mm_malloc" /\ calls' = calls + 1 /\ last'.ret # NULL)
                => HeldBy(held, last'.ret) = 0]_vars

\* C15: mm_malloc for a valid size whose class has an empty free list returns
\* (unless malloc fails) a block fresh from malloc, allocated with the size
\* of the class, and leaves every free list and every counter as it was.
FallbackFresh ==
    [][(/\ last'.op = "mm_malloc"
        /\ calls' = calls + 1
        /\ last'.size \in 1 .. MAX_CHUNK_SIZE
        /\ mem[FreeListWord(SmallestClass(last'.size))] = NULL
        /\ ~last'.oom)
          => /\ status' = "run"
             /\ mem' = mem
             /\ \E b \in Blocks :
                   /\ last'.ret = Addr(b)
                   /\ ~heap[b].live
                   /\ heap'[b].live
                   /\ heap'[b].size = chunk_sizes(SmallestClass(last'.size))
                   /\ OnLists(mem', heap', Addr(b)) = 0]_vars

\* The list of class c consists of block p alone, linked to itself.
Cyclic(m, h, c, p) ==
    /\ m[FreeListWord(c)] = p
    /\ \E b \in DOMAIN h : h[b].live /\ Addr(b) = p /\ h[b].next = p

\* C16: two calls mm_free(b, s) in a row for the same block and class leave
\* the list of the class cyclic: its head is b and b->next is b, so no other
\* block is reachable from it; and from then on every mm_malloc of the class
\* returns b and leaves the list as it is.
DoubleRelease ==
    [][/\ (/\ last.op = "mm_free"
           /\ last.index # 0 - 1
           /\ IsBase(last.ptr)
           /\ last'.op = "mm_free"
           /\ calls' = calls + 1
           /\ last'.index # 0 - 1
           /\ last'.ptr = last.ptr
           /\ SmallestClass(last'.size) = SmallestClass(last.size))
             => Cyclic(mem', heap', SmallestClass(last.size), last.ptr)
       /\ \A c \in 0 .. chunk_sizes_len - 1 : \A b \in Blocks :
            (/\ Cyclic(mem, heap, c, Addr(b))
             /\ last'.op = "mm_malloc"
             /\ calls' = calls + 1
             /\ last'.size \in 1 .. MAX_CHUNK_SIZE
             /\ SmallestClass(last'.size) = c)
               => /\ status' = "run"
                  /\ last'.ret = Addr(b)
                  /\ Cyclic(mem', heap', c, Addr(b))]_vars

\* C17: mm_free(b, s') with a valid s' of another class than the one b was
\* allocated for is carried out: b becomes the head of the list of the class
\* of s', linked to the old head; the next call, if it is mm_malloc for that
\* class, returns b; and when that class is the larger one, the block
\* returned was allocated with fewer bytes than the size of the class.
WrongSizeRelease ==
    [][/\ (/\ last'.op = "mm_free"
           /\ calls' = calls + 1
           /\ last'.size \in 1 .. MAX_CHUNK_SIZE
           /\ IsBase(last'.ptr)
           /\ PrevClass(last'.ptr) \notin {0 - 1, SmallestClass(last'.size)})
             => /\ mem'[FreeListWord(SmallestClass(last'.size))] = last'.ptr
                /\ heap'[BlockOf(last'.ptr)].next =
                       mem[FreeListWord(SmallestClass(last'.size))]
       /\ (/\ last.op = "mm_free"
           /\ last.size \in 1 .. MAX_CHUNK_SIZE
           /\ IsBase(last.ptr)
           /\ PrevClass(last.ptr) \notin {0 - 1, SmallestClass(last.size)}
           /\ last'.op = "mm_malloc"
           /\ calls' = calls + 1
           /\ last'.size \in 1 .. MAX_CHUNK_SIZE
           /\ SmallestClass(last'.size) = SmallestClass(last.size))
             => /\ status' = "run"
                /\ last'.ret = last.ptr
                /\ PrevClass(last.ptr) < SmallestClass(last.size)
                     => heap'[BlockOf(last.ptr)].size
                            < chunk_sizes(SmallestClass(last.size))]_vars

\* C12: when two threads are both between the read of the head (line 76) and
\* the write of the head (line 77) of mm_malloc with the same block, both
\* calls return that block.
PopRace ==
    \A t, u \in Threads :
        (/\ t # u
         /\ thr[t].raced /\ thr[u].raced
         /\ thr[t].pc = "link" /\ thr[u].pc = "link"
         /\ thr[t].block = thr[u].block)
          => /\ thr[t].ptr # NULL
             /\ thr[t].ptr = thr[t].block
             /\ thr[u].ptr = thr[t].block

\* C12 witness: two threads whose calls of mm_malloc overlapped have both
\* returned, with the same block.
PopRaceWitness ==
    /\ status = "run"
    /\ \E t, u \in Threads :
         /\ t # u
         /\ thr[t].raced /\ thr[u].raced
         /\ thr[t].pc = "link" /\ thr[u].pc = "link"
         /\ thr[t].ptr = thr[u].ptr
         /\ IsBase(thr[t].ptr)

\* The words from which threads th can still reach a block: what a call in
\* progress is about to return, to make the head, or to push.
ThreadRoots(th) ==
    {th[u].ptr : u \in Threads}
        \cup {th[u].block : u \in {v \in Threads : th[v].pc \in {"next", "store"}}}
        \cup {th[u].nx : u \in {v \in Threads : th[v].pc = "store"}}

\* Block p is lost: on no free list, and not reachable from any thread.
Lost(m, h, th, p) ==
    /\ OnLists(m, h, p) = 0
    /\ \A r \in ThreadRoots(th) : p \notin Range(ListFrom(h, r, MaxBlocks + 1))

\* C13: when a thread in mm_free writes the head (line 92) after another
\* release changed it since the thread read it (line 91), the block that
\* was the head is lost: it is on no free list and no thread holds it.
PushRace ==
    [][\A t \in Threads :
          (/\ thr[t].pc = "publish"
           /\ thr'[t].pc # "publish"
           /\ mem[ThreadHead] # thr[t].seen
           /\ IsBase(mem[ThreadHead])
           /\ \A r \in ThreadRoots(thr) :
                 mem[ThreadHead] \notin Range(ListFrom(heap, r, MaxBlocks + 1)))
            => Lost(mem', heap', thr', mem[ThreadHead])]_vars

\* C13 witness: the calls of mm_free of both threads have returned, one of
\* them wrote the head over the other's, and a released block is lost.
PushRaceWitness ==
    /\ status = "run"
    /\ \A u \in Threads : thr[u].pc \in {"call", "done"} /\ thr[u].round > 0
    /\ \E t \in Threads : thr[t].stale
    /\ \E b \in Blocks : heap[b].live /\ Lost(mem, heap, thr, Addr(b))

\* C18: in every run of main that accepts its command line,
\* preallocate_memory is called exactly once, and before the first call of
\* mm_malloc or mm_free (stated for the runs in which no backing allocation
\* fails).
SeedFirst ==
    /\ prog.log # <<>> => prog.log[1] = "preallocate_memory"
    /\ (prog.pc = "return0" /\ ~prog.oom)
          => Occurrences(prog.log, "preallocate_memory") = 1

====
